---- MODULE Spec2Model ----
(***************************************************************************)
(* The Seloger job orchestrator (src/sel.py and its near-duplicate         *)
(* src/seldeep.py) as a state machine: one process that walks main() from  *)
(* the construction of SelogerAPI to its exit, one action per method call  *)
(* (one action per iteration for the polling loops), the remote service    *)
(* answering every request with a response drawn from a small set.         *)
(*                                                                         *)
(* Text is modelled as a tuple of one-character strings, so that upper(),  *)
(* lower(), splitext() and basename() are computed character by character. *)
(* A JSON body is a record; a field the service left out is a field that   *)
(* is not in the record's DOMAIN, and dict.get is the operator Get.        *)
(***************************************************************************)
EXTENDS Integers, Sequences, FiniteSets, TLC

\* ------------------------------------------------------------------ bounds

\* The run-progress loop has no ceiling: the model stops polling after this
\* many run-stats requests.
MaxRunPolls == 2

\* ------------------------------------------------------- program constants

upload_max_wait == 60
upload_interval == 5
export_max_wait == 120
export_interval == 5
run_interval == 2

\* ---------------------------------------------------------------- text

None == "<None>"

LowerLetters ==
    <<"a","b","c","d","e","f","g","h","i","j","k","l","m",
      "n","o","p","q","r","s","t","u","v","w","x","y","z">>

UpperLetters ==
    <<"A","B","C","D","E","F","G","H","I","J","K","L","M",
      "N","O","P","Q","R","S","T","U","V","W","X","Y","Z">>

\* str.upper() and str.lower() on one ASCII character.
UpperChar(c) ==
    IF \E i \in DOMAIN LowerLetters : LowerLetters[i] = c
    THEN UpperLetters[CHOOSE i \in DOMAIN LowerLetters : LowerLetters[i] = c]
    ELSE c

LowerChar(c) ==
    IF \E i \in DOMAIN UpperLetters : UpperLetters[i] = c
    THEN LowerLetters[CHOOSE i \in DOMAIN UpperLetters : UpperLetters[i] = c]
    ELSE c

Upper(s) == [i \in DOMAIN s |-> UpperChar(s[i])]

Lower(s) == [i \in DOMAIN s |-> LowerChar(s[i])]

\* str.rfind of one character: 0 when absent (Python's -1, 1-based here).
RFind(s, c) ==
    IF \E i \in DOMAIN s : s[i] = c
    THEN CHOOSE i \in DOMAIN s : s[i] = c /\ \A j \in DOMAIN s : s[j] = c => j <= i
    ELSE 0

\* os.path.splitext(p)[1]: the text from the last dot of the last path
\* component, a dot that only leads the component not counting.
SplitExt(p) ==
    LET sep == RFind(p, "/")
        dot == RFind(p, ".")
    IN  IF dot > sep /\ \E k \in (sep + 1)..(dot - 1) : p[k] # "."
        THEN SubSeq(p, dot, Len(p))
        ELSE <<>>

\* os.path.basename(p): the text after the last slash.
BaseName(p) == SubSeq(p, RFind(p, "/") + 1, Len(p))

CSV_EXT == <<".", "c", "s", "v">>
TSV_EXT == <<".", "t", "s", "v">>

\* get_mime_type: the MIME type, or None where the method calls sys.exit.
get_mime_type(file_path) ==
    LET ext == Lower(SplitExt(file_path))
    IN  IF ext = CSV_EXT THEN "text/csv"
        ELSE IF ext = TSV_EXT THEN "text/tab-separated-values"
        ELSE None

\* dict.get(key, default) on a JSON body.
Get(body, key, default) == IF key \in DOMAIN body THEN body[key] ELSE default

\* Truthy with the empty string taken for a value.
Truthy_NotNoneOnly(v) == v # None

\* Python's truth value of an identifier-like value: None and "" are false.
Truthy(v) == v # None /\ v # ""

\* Truth value of the tasks_file argument: None (not given) and "" are false.
HasTasksFile(tf) == tf.given /\ tf.path # <<>>

\* ------------------------------------------------------------ the remote

SUCCESS == <<"S","U","C","C","E","S","S">>

OtherBody == [detail |-> "x"]

Resp(ok, body) == [ok |-> ok, body |-> body]

ErrorResp == Resp(FALSE, [detail |-> "error"])

CreateResponses ==
    {ErrorResp} \cup
    {Resp(TRUE, b) : b \in {[id |-> "sq1"], [id |-> "sq2"], [id |-> ""], OtherBody}}

UpdateResponses == {ErrorResp, Resp(TRUE, OtherBody)}

UploadResponses ==
    {ErrorResp} \cup
    {Resp(TRUE, b) : b \in {[task_id |-> "up1"], [task_id |-> ""], OtherBody}}

UploadStates ==
    { SUCCESS,
      <<"S","u","c","c","e","s","s">>,
      <<"P","E","N","D","I","N","G">>,
      <<"F","A","I","L","E","D">>,
      <<>> }

UploadStatusResponses ==
    {ErrorResp, Resp(TRUE, OtherBody)} \cup
    {Resp(TRUE, [state |-> s]) : s \in UploadStates}

DeleteResponses == {ErrorResp, Resp(TRUE, [deleted |-> TRUE])}

RunResponses ==
    {ErrorResp} \cup
    {Resp(TRUE, b) : b \in {[id |-> "run1"], [id |-> ""], OtherBody}}

RunStatsResponses ==
    {ErrorResp, Resp(TRUE, OtherBody),
     Resp(TRUE, [percent_done |-> "100%", results_done |-> 4, results_total |-> 4])} \cup
    {Resp(TRUE, [is_done |-> d, percent_done |-> p, results_done |-> 2, results_total |-> 4]) :
        d \in BOOLEAN, p \in {"50%", "100%"}}

RunDetailsResponses ==
    {ErrorResp, Resp(TRUE, [status |-> "done"])} \cup
    {Resp(TRUE, [export_done |-> d, status |-> "done"]) : d \in BOOLEAN}

DownloadUrlResponses ==
    {ErrorResp} \cup
    {Resp(TRUE, b) : b \in {[s3 |-> "https://s3/x"], [s3 |-> ""], OtherBody}}

DownloadResponses == {ErrorResp, [ok |-> TRUE, body |-> [content |-> "bytes"]]}

\* ------------------------------------------------------------ the inputs

Implementations == {"sel", "seldeep"}

\* LOBSTR_API_KEY in the environment: unset, empty, or a key.
EnvKeys == {None, "", "key"}

TaskFiles ==
    { [given |-> FALSE, path |-> <<>>],
      [given |-> TRUE, path |-> <<>>],
      [given |-> TRUE, path |-> <<"s", ".", "c", "s", "v">>],
      [given |-> TRUE, path |-> <<"d", ".", "x", "/", "T", ".", "T", "s", "V">>],
      [given |-> TRUE, path |-> <<"t", ".", "t", "x", "t">>],
      [given |-> TRUE, path |-> <<"a", ".", "c", "s", "v", ".", "b">>],
      [given |-> TRUE, path |-> <<"c", ".", "v", "/", "c", "s", "v">>],
      [given |-> TRUE, path |-> <<".", "c", "s", "v">>] }

\* The command line (concurrency, max_pages, annonce_details as argparse
\* hands them over) and the working directory's run_results.csv before the
\* run: the defaults, the spec's end-to-end scenario, and integers below 1.
Settings ==
    { [concurrency |-> 1, max_pages |-> 2, annonce_details |-> FALSE, out_file |-> "absent"],
      [concurrency |-> 3, max_pages |-> 5, annonce_details |-> TRUE, out_file |-> "old"],
      [concurrency |-> 0, max_pages |-> -1, annonce_details |-> FALSE, out_file |-> "old"] }

\* ------------------------------------------------------------- the state

VARIABLES
    impl,          \* which of the two scripts runs
    env_key,       \* LOBSTR_API_KEY of the environment
    args,          \* parse_args(): concurrency, max_pages, annonce_details, tasks_file
    self,          \* the SelogerAPI instance's fields
    pc,            \* position in main()
    elapsed,       \* the running polling loop's elapsed
    slept,         \* time.sleep total of each polling loop
    upload_id,     \* main's task_upload_id / upload_id
    s3_url,        \* main's s3_url / results_url
    calls,         \* the remote calls issued, in order
    payload,       \* the JSON payloads sent to update-job
    upload_req,    \* the multipart uploads sent
    last,          \* per endpoint, the last response received
    returned,      \* the methods that returned normally
    out_file,      \* run_results.csv in the working directory
    writes,        \* how often run_results.csv was opened for writing
    exit_status,   \* the process's exit status (-1 while it runs)
    exit_msg       \* what the process printed as it exited

vars ==
    <<impl, env_key, args, self, pc, elapsed, slept, upload_id, s3_url,
      calls, payload, upload_req, last, returned, out_file, writes,
      exit_status, exit_msg>>

Endpoints ==
    {"create", "update", "upload", "upload_status", "delete", "create_run",
     "run_stats", "run_details", "download_url", "download"}

PollLoops == {"upload_status", "run_stats", "run_details"}

Call(ep, id, auth) == [ep |-> ep, id |-> id, auth |-> auth]

Count(ep, cs) == Cardinality({i \in DOMAIN cs : cs[i].ep = ep})

Init ==
    /\ impl \in Implementations
    /\ env_key \in EnvKeys
    /\ \E s \in Settings, tf \in TaskFiles :
          /\ args = [concurrency |-> s.concurrency, max_pages |-> s.max_pages,
                     annonce_details |-> s.annonce_details, tasks_file |-> tf]
          /\ out_file = s.out_file
    /\ self = [api_key |-> None, concurrency |-> 0, annonce_details |-> FALSE,
               tasks_file |-> [given |-> FALSE, path |-> <<>>], max_pages |-> 0,
               squid_id |-> None, run_id |-> None]
    /\ pc = "construct"
    /\ elapsed = 0
    /\ slept = [l \in PollLoops |-> 0]
    /\ upload_id = None
    /\ s3_url = None
    /\ calls = <<>>
    /\ payload = <<>>
    /\ upload_req = <<>>
    /\ last = [e \in Endpoints |-> <<>>]
    /\ returned = {}
    /\ writes = 0
    /\ exit_status = -1
    /\ exit_msg = ""

\* sys.exit(message): the message goes to stderr and the status is 1.
SysExit(msg) ==
    /\ pc' = "exited"
    /\ exit_status' = 1
    /\ exit_msg' = msg

Running(next) ==
    /\ pc' = next
    /\ UNCHANGED <<exit_status, exit_msg>>

\* SelogerAPI.__init__
Construct ==
    /\ pc = "construct"
    /\ IF ~Truthy(env_key)
       THEN /\ SysExit("LOBSTR_API_KEY environment variable not set!")
            /\ UNCHANGED self
       ELSE /\ self' = [api_key |-> env_key,
                        concurrency |-> args.concurrency,
                        annonce_details |-> args.annonce_details,
                        tasks_file |-> args.tasks_file,
                        max_pages |-> args.max_pages,
                        squid_id |-> None,
                        run_id |-> None]
            /\ Running("create_squid")
    /\ UNCHANGED <<impl, env_key, args, elapsed, slept, upload_id, s3_url,
                   calls, payload, upload_req, last, returned, out_file, writes>>

\* ------------------------------------------------- the code's decisions

\* ResponseOk without the status check.
ResponseOk_Ignored(resp) == TRUE

\* `if not resp.ok` of every method.
ResponseOk(resp) == resp.ok

\* IdOf with a default in place of None.
IdOf_Defaulted(resp, key) == Get(resp.body, key, "unknown")

\* create_squid's and start_run's `.get("id")`, upload's `.get("task_id")`,
\* get_s3_url's `.get("s3")`.
IdOf(resp, key) == Get(resp.body, key, None)

\* UploadSucceeded without upper(), and UploadSucceeded for any 2xx.
UploadSucceeded_Exact(resp) == Get(resp.body, "state", <<>>) = SUCCESS

UploadSucceeded_Any(resp) == TRUE

\* poll_task_upload_status: `state = status_info.get("state", "")` and
\* `state.upper() == "SUCCESS"`.
UploadSucceeded(resp) == Upper(Get(resp.body, "state", <<>>)) = SUCCESS

\* The loop condition with <= for <.
UploadLoopContinues_Inclusive(e) == e <= upload_max_wait

\* The loop condition of a loop without a ceiling.
UploadLoopContinues_Always(e) == TRUE

\* `while elapsed < max_wait` of the two bounded loops.
UploadLoopContinues(e) == e < upload_max_wait

ExportLoopContinues(e) == e < export_max_wait

\* RunIsDone read off the progress figure.
RunIsDone_ByPercent(resp) == Get(resp.body, "percent_done", "0%") = "100%"

\* poll_run_progress: `if data.get("is_done")`.
RunIsDone(resp) == "is_done" \in DOMAIN resp.body /\ resp.body.is_done

\* ExportIsDone with the default True.
ExportIsDone_DefaultTrue(resp) == Get(resp.body, "export_done", TRUE)

\* poll_export_status: `if data.get("export_done", False)`.
ExportIsDone(resp) == Get(resp.body, "export_done", FALSE)

\* UpdatePayload with the two integers in each other's place.
UpdatePayload_Swapped(s) ==
    [concurrency |-> s.max_pages,
     export_unique_results |-> TRUE,
     no_line_breaks |-> TRUE,
     to_complete |-> FALSE,
     params |-> [max_pages |-> s.concurrency,
                 fill_results_details |-> [annonce_details |-> s.annonce_details]],
     accounts |-> None,
     run_notify |-> "on_success"]

\* update_squid's payload.
UpdatePayload(s) ==
    [concurrency |-> s.concurrency,
     export_unique_results |-> TRUE,
     no_line_breaks |-> TRUE,
     to_complete |-> FALSE,
     params |-> [max_pages |-> s.max_pages,
                 fill_results_details |-> [annonce_details |-> s.annonce_details]],
     accounts |-> None,
     run_notify |-> "on_success"]

\* start_run's payload {"squid": self.squid_id}.
RunSquid(s) == s.squid_id

\* The branch inverted.
TakesUploadBranch_Inverted(s) == ~HasTasksFile(s.tasks_file)

\* main's `if api.tasks_file:`.
TakesUploadBranch(s) == HasTasksFile(s.tasks_file)

\* A request goes out and its response comes back.
Issue(ep, id, auth, resp) ==
    /\ calls' = Append(calls, Call(ep, id, auth))
    /\ last' = [last EXCEPT ![ep] = <<resp>>]

\* ------------------------------------------------------------ the methods

\* create_squid
CreateSquid ==
    /\ pc = "create_squid"
    /\ \E resp \in CreateResponses :
          /\ Issue("create", None, TRUE, resp)
          /\ IF ~ResponseOk(resp)
             THEN SysExit("create_failed") /\ UNCHANGED <<self, returned>>
             ELSE /\ self' = [self EXCEPT !.squid_id = IdOf(resp, "id")]
                  /\ IF ~Truthy(IdOf(resp, "id"))
                     THEN SysExit("squid_id_missing") /\ UNCHANGED returned
                     ELSE /\ Running("update_squid")
                          /\ returned' = returned \cup {"create_squid"}
    /\ UNCHANGED <<impl, env_key, args, elapsed, slept, upload_id, s3_url,
                   payload, upload_req, out_file, writes>>

\* update_squid
UpdateSquid ==
    /\ pc = "update_squid"
    /\ payload' = Append(payload, UpdatePayload(self))
    /\ \E resp \in UpdateResponses :
          /\ Issue("update", self.squid_id, TRUE, resp)
          /\ IF ~ResponseOk(resp)
             THEN SysExit("update_failed") /\ UNCHANGED returned
             ELSE /\ Running("branch")
                  /\ returned' = returned \cup {"update_squid"}
    /\ UNCHANGED <<impl, env_key, args, self, elapsed, slept, upload_id, s3_url,
                   upload_req, out_file, writes>>

\* main's tasks-file branch and upload_tasks_file; on its return main enters
\* poll_task_upload_status, which sets elapsed = 0.
UploadTasksFileOf(im) ==
    /\ pc = "branch"
    /\ TakesUploadBranch(self)
    /\ LET path == self.tasks_file.path
           mime == get_mime_type(path)
       IN  IF im = "seldeep" /\ ~HasTasksFile(self.tasks_file)
           THEN /\ SysExit("no_tasks_file_for_upload")
                /\ UNCHANGED <<calls, last, upload_req, upload_id, returned, elapsed>>
           ELSE IF mime = None
           THEN /\ SysExit("invalid_extension")
                /\ UNCHANGED <<calls, last, upload_req, upload_id, returned, elapsed>>
           ELSE \E can_open \in BOOLEAN :
                  IF ~can_open
                  THEN /\ SysExit("file_open_error")
                       /\ UNCHANGED <<calls, last, upload_req, upload_id, returned, elapsed>>
                  ELSE \E resp \in UploadResponses :
                         /\ Issue("upload", self.squid_id, TRUE, resp)
                         /\ upload_req' = Append(upload_req,
                                [filename |-> BaseName(path), mime |-> mime])
                         /\ IF ~ResponseOk(resp)
                            THEN /\ SysExit("upload_failed")
                                 /\ UNCHANGED <<upload_id, returned, elapsed>>
                            ELSE IF ~Truthy(IdOf(resp, "task_id"))
                            THEN /\ SysExit("upload_id_missing")
                                 /\ UNCHANGED <<upload_id, returned, elapsed>>
                            ELSE /\ upload_id' = IdOf(resp, "task_id")
                                 /\ returned' = returned \cup {"upload_tasks_file"}
                                 /\ elapsed' = 0
                                 /\ Running("poll_upload")
    /\ UNCHANGED <<impl, env_key, args, self, slept, s3_url, payload,
                   out_file, writes>>

UploadTasksFile == UploadTasksFileOf(impl)

\* One iteration of poll_task_upload_status's loop; on its return main
\* enters start_run.
PollUploadStatus ==
    /\ pc = "poll_upload"
    /\ UploadLoopContinues(elapsed)
    /\ \E resp \in UploadStatusResponses :
          /\ Issue("upload_status", upload_id, TRUE, resp)
          /\ IF ~ResponseOk(resp)
             THEN SysExit("upload_status_failed") /\ UNCHANGED <<elapsed, slept, returned>>
             ELSE IF UploadSucceeded(resp)
             THEN /\ Running("start_run")
                  /\ returned' = returned \cup {"poll_task_upload_status"}
                  /\ UNCHANGED <<elapsed, slept>>
             ELSE /\ slept' = [slept EXCEPT !["upload_status"] = @ + upload_interval]
                  /\ elapsed' = elapsed + upload_interval
                  /\ Running("poll_upload")
                  /\ UNCHANGED returned
    /\ UNCHANGED <<impl, env_key, args, self, upload_id, s3_url, payload,
                   upload_req, out_file, writes>>

\* PollUploadTimeout with the job deleted before the exit.
PollUploadTimeout_Cleanup ==
    /\ pc = "poll_upload"
    /\ ~(elapsed < upload_max_wait)
    /\ \E resp \in DeleteResponses :
          /\ calls' = Append(calls, Call("delete", self.squid_id, TRUE))
          /\ last' = [last EXCEPT !["delete"] = <<resp>>]
    /\ pc' = "exited"
    /\ exit_status' = 1
    /\ exit_msg' = "upload_timeout"
    /\ UNCHANGED <<impl, env_key, args, self, elapsed, slept, upload_id, s3_url,
                   payload, upload_req, returned, out_file, writes>>

\* poll_task_upload_status's loop ends without a SUCCESS.
PollUploadTimeout ==
    /\ pc = "poll_upload"
    /\ ~UploadLoopContinues(elapsed)
    /\ SysExit("upload_timeout")
    /\ UNCHANGED <<impl, env_key, args, self, elapsed, slept, upload_id, s3_url,
                   calls, payload, upload_req, last, returned, out_file, writes>>

\* DeleteSkipped turned round: seldeep returns when there is a job to delete.
DeleteSkipped_Inverted(im, s) == im = "seldeep" /\ Truthy(s.squid_id)

\* seldeep's delete_squid: `if not self.squid_id: return`; sel has no guard.
DeleteSkipped(im, s) == im = "seldeep" /\ ~Truthy(s.squid_id)

\* main's branch without a tasks file: delete_squid, then sys.exit.
DeleteSquidOf(im) ==
    /\ pc = "branch"
    /\ ~TakesUploadBranch(self)
    /\ IF DeleteSkipped(im, self)
       THEN /\ SysExit("no_tasks_file")
            /\ returned' = returned \cup {"delete_squid"}
            /\ UNCHANGED <<calls, last>>
       ELSE \E resp \in DeleteResponses :
              /\ Issue("delete", self.squid_id, TRUE, resp)
              /\ IF ~ResponseOk(resp)
                 THEN SysExit("delete_failed") /\ UNCHANGED returned
                 ELSE /\ SysExit("no_tasks_file")
                      /\ returned' = returned \cup {"delete_squid"}
    /\ UNCHANGED <<impl, env_key, args, self, elapsed, slept, upload_id, s3_url,
                   payload, upload_req, out_file, writes>>

DeleteSquid == DeleteSquidOf(impl)

\* start_run; on its return main enters poll_run_progress.
StartRun ==
    /\ pc = "start_run"
    /\ \E resp \in RunResponses :
          /\ Issue("create_run", RunSquid(self), TRUE, resp)
          /\ IF ~ResponseOk(resp)
             THEN SysExit("start_run_failed") /\ UNCHANGED <<self, returned>>
             ELSE /\ self' = [self EXCEPT !.run_id = IdOf(resp, "id")]
                  /\ IF ~Truthy(IdOf(resp, "id"))
                     THEN SysExit("run_id_missing") /\ UNCHANGED returned
                     ELSE /\ Running("poll_run")
                          /\ returned' = returned \cup {"start_run"}
    /\ UNCHANGED <<impl, env_key, args, elapsed, slept, upload_id, s3_url,
                   payload, upload_req, out_file, writes>>

\* One iteration of poll_run_progress's `while True`; on its return main
\* enters poll_export_status, which sets elapsed = 0.
PollRunProgressOf(im) ==
    /\ pc = "poll_run"
    /\ Count("run_stats", calls) < MaxRunPolls
    /\ IF im = "seldeep" /\ ~Truthy(self.run_id)
       THEN /\ SysExit("run_id_missing_for_progress")
            /\ UNCHANGED <<calls, last, elapsed, slept, returned>>
       ELSE \E resp \in RunStatsResponses :
              /\ Issue("run_stats", self.run_id, TRUE, resp)
              /\ IF ~ResponseOk(resp)
                 THEN SysExit("run_stats_failed") /\ UNCHANGED <<elapsed, slept, returned>>
                 ELSE IF RunIsDone(resp)
                 THEN /\ Running("poll_export")
                      /\ returned' = returned \cup {"poll_run_progress"}
                      /\ elapsed' = 0
                      /\ UNCHANGED slept
                 ELSE /\ slept' = [slept EXCEPT !["run_stats"] = @ + run_interval]
                      /\ Running("poll_run")
                      /\ UNCHANGED <<elapsed, returned>>
    /\ UNCHANGED <<impl, env_key, args, self, upload_id, s3_url, payload,
                   upload_req, out_file, writes>>

PollRunProgress == PollRunProgressOf(impl)

\* One iteration of poll_export_status's loop; on its return main enters
\* get_s3_url.
PollExportStatusOf(im) ==
    /\ pc = "poll_export"
    /\ ExportLoopContinues(elapsed)
    /\ IF im = "seldeep" /\ ~Truthy(self.run_id)
       THEN /\ SysExit("run_id_missing_for_export")
            /\ UNCHANGED <<calls, last, elapsed, slept, returned>>
       ELSE \E resp \in RunDetailsResponses :
              /\ Issue("run_details", self.run_id, TRUE, resp)
              /\ IF ~ResponseOk(resp)
                 THEN SysExit("run_details_failed") /\ UNCHANGED <<elapsed, slept, returned>>
                 ELSE IF ExportIsDone(resp)
                 THEN /\ Running("get_s3_url")
                      /\ returned' = returned \cup {"poll_export_status"}
                      /\ UNCHANGED <<elapsed, slept>>
                 ELSE /\ slept' = [slept EXCEPT !["run_details"] = @ + export_interval]
                      /\ elapsed' = elapsed + export_interval
                      /\ Running("poll_export")
                      /\ UNCHANGED returned
    /\ UNCHANGED <<impl, env_key, args, self, upload_id, s3_url, payload,
                   upload_req, out_file, writes>>

PollExportStatus == PollExportStatusOf(impl)

\* poll_export_status's loop ends without export_done.
PollExportTimeout ==
    /\ pc = "poll_export"
    /\ ~ExportLoopContinues(elapsed)
    /\ SysExit("export_timeout")
    /\ UNCHANGED <<impl, env_key, args, self, elapsed, slept, upload_id, s3_url,
                   calls, payload, upload_req, last, returned, out_file, writes>>

\* get_s3_url (seldeep: get_results_url)
GetS3UrlOf(im) ==
    /\ pc = "get_s3_url"
    /\ IF im = "seldeep" /\ ~Truthy(self.run_id)
       THEN /\ SysExit("run_id_missing_for_url")
            /\ UNCHANGED <<calls, last, s3_url, returned>>
       ELSE \E resp \in DownloadUrlResponses :
              /\ Issue("download_url", self.run_id, TRUE, resp)
              /\ IF ~ResponseOk(resp)
                 THEN SysExit("download_url_failed") /\ UNCHANGED <<s3_url, returned>>
                 ELSE IF ~Truthy(IdOf(resp, "s3"))
                 THEN SysExit("s3_url_missing") /\ UNCHANGED <<s3_url, returned>>
                 ELSE /\ s3_url' = IdOf(resp, "s3")
                      /\ returned' = returned \cup {"get_s3_url"}
                      /\ Running("download_csv")
    /\ UNCHANGED <<impl, env_key, args, self, elapsed, slept, upload_id,
                   payload, upload_req, out_file, writes>>

GetS3Url == GetS3UrlOf(impl)

\* download_csv (seldeep: download_results), then main returns: status 0.
\* open(filename, "wb") or f.write may raise OSError, which nothing catches:
\* a traceback and status 1.
DownloadCsv ==
    /\ pc = "download_csv"
    /\ \E resp \in DownloadResponses :
          /\ Issue("download", s3_url, FALSE, resp)
          /\ IF ~ResponseOk(resp)
             THEN SysExit("download_failed") /\ UNCHANGED <<out_file, writes, returned>>
             ELSE \E disk \in {"ok", "open_fails", "write_fails"} :
                    /\ out_file' = CASE disk = "ok" -> resp.body.content
                                     [] disk = "open_fails" -> out_file
                                     [] disk = "write_fails" -> "partial"
                    /\ writes' = IF disk = "open_fails" THEN writes ELSE writes + 1
                    /\ pc' = "exited"
                    /\ exit_status' = IF disk = "ok" THEN 0 ELSE 1
                    /\ exit_msg' = IF disk = "ok" THEN "" ELSE "uncaught_OSError"
                    /\ returned' = IF disk = "ok"
                                   THEN returned \cup {"download_csv", "main"}
                                   ELSE returned
    /\ UNCHANGED <<impl, env_key, args, self, elapsed, slept, upload_id, s3_url,
                   payload, upload_req>>

\* SIGINT while the process runs. seldeep's main catches KeyboardInterrupt
\* around the lifecycle (not around parse_args and the constructor) and
\* calls sys.exit(1); anywhere else the exception is uncaught and the
\* interpreter dies of the signal (status 130 to the shell).
Interrupt ==
    /\ pc # "exited"
    /\ pc' = "exited"
    /\ IF impl = "seldeep" /\ pc # "construct"
       THEN exit_status' = 1 /\ exit_msg' = "operation_cancelled"
       ELSE exit_status' = 130 /\ exit_msg' = "uncaught_KeyboardInterrupt"
    /\ UNCHANGED <<impl, env_key, args, self, elapsed, slept, upload_id, s3_url,
                   calls, payload, upload_req, last, returned, out_file, writes>>

Next ==
    \/ Construct
    \/ CreateSquid
    \/ UpdateSquid
    \/ UploadTasksFile
    \/ PollUploadStatus
    \/ PollUploadTimeout
    \/ DeleteSquid
    \/ StartRun
    \/ PollRunProgress
    \/ PollExportStatus
    \/ PollExportTimeout
    \/ GetS3Url
    \/ DownloadCsv
    \/ Interrupt

\* The steps of main() as script im takes them: everything but the signal.
LifecycleOf(im) ==
    \/ Construct
    \/ CreateSquid
    \/ UpdateSquid
    \/ UploadTasksFileOf(im)
    \/ PollUploadStatus
    \/ PollUploadTimeout
    \/ DeleteSquidOf(im)
    \/ StartRun
    \/ PollRunProgressOf(im)
    \/ PollExportStatusOf(im)
    \/ PollExportTimeout
    \/ GetS3UrlOf(im)
    \/ DownloadCsv

Lifecycle == LifecycleOf(impl)

Spec == Init /\ [][Next]_vars

\* The runs of the specification's end-to-end command line (concurrency 3,
\* max_pages 5, annonce_details), with every credential and tasks file.
LiveInit == Init /\ args.concurrency = 3

\* The process is running: whenever main() has a next step it takes one. A
\* signal may come or not.
FairSpec == LiveInit /\ [][Next]_vars /\ WF_vars(Lifecycle)

\* ------------------------------------------------------------- the claims

\* What the claims read off the state, computed apart from the code's own
\* decisions.

Eps(cs) == [i \in DOMAIN cs |-> cs[i].ep]

Answered(ep) == last[ep] # <<>>

Answer(ep) == last[ep][1]

\* A request to ep goes out in this step.
Issues(ep) ==
    /\ Len(calls') = Len(calls) + 1
    /\ calls'[Len(calls')].ep = ep

NoTasksFile == ~args.tasks_file.given \/ args.tasks_file.path = <<>>

Interrupted == exit_msg \in {"operation_cancelled", "uncaught_KeyboardInterrupt"}

\* Two texts equal but for the case of their letters.
SameIgnoringCase(a, b) ==
    /\ Len(a) = Len(b)
    /\ \A i \in DOMAIN a :
          \/ a[i] = b[i]
          \/ \E k \in DOMAIN LowerLetters :
                {a[i], b[i]} = {LowerLetters[k], UpperLetters[k]}

\* The remote's answers, as the remote means them.
SaidUploadSuccess(resp) ==
    /\ resp.ok
    /\ "state" \in DOMAIN resp.body
    /\ SameIgnoringCase(resp.body.state, SUCCESS)

SaidRunDone(resp) ==
    resp.ok /\ "is_done" \in DOMAIN resp.body /\ resp.body.is_done = TRUE

SaidExportDone(resp) ==
    resp.ok /\ "export_done" \in DOMAIN resp.body /\ resp.body.export_done = TRUE

\* C1: without a tasks file no create-run call is ever issued, and once the
\* job is configured the process ends (unless interrupted) having issued
\* exactly create, update, delete; a successful delete ends the process at
\* once. With a tasks file, a run in which every step succeeds (exit status
\* 0) has issued no delete call.
C1_EarlyExitBranch ==
    /\ NoTasksFile => Count("create_run", calls) = 0
    /\ (NoTasksFile /\ Count("delete", calls) > 0) =>
          /\ Eps(calls) = <<"create", "update", "delete">>
          /\ pc = "exited"
    /\ (NoTasksFile /\ "update_squid" \in returned /\ pc = "exited" /\ ~Interrupted) =>
          Eps(calls) = <<"create", "update", "delete">>
    /\ (~NoTasksFile /\ exit_status = 0) => Count("delete", calls) = 0

C1_Witness ==
    /\ NoTasksFile
    /\ exit_msg = "no_tasks_file"
    /\ Eps(calls) = <<"create", "update", "delete">>
    /\ Answer("delete").ok

\* C2: whenever a create-run call has been issued, the create call was
\* answered 2xx with a non-empty id, the update call was answered 2xx, the
\* last upload-status poll said SUCCESS (ignoring case), and the create-run
\* call carries the id the create call returned.
C2_RunOnlyAfterConfiguredAndUploaded ==
    \A i \in DOMAIN calls :
        calls[i].ep = "create_run" =>
            /\ Answered("create") /\ Answer("create").ok
            /\ "id" \in DOMAIN Answer("create").body
            /\ Answer("create").body.id \notin {None, ""}
            /\ calls[i].id = Answer("create").body.id
            /\ Answered("update") /\ Answer("update").ok
            /\ Answered("upload_status") /\ SaidUploadSuccess(Answer("upload_status"))
            /\ \E j \in 1..(i - 1) : calls[j].ep = "update"
            /\ \E j \in 1..(i - 1) : calls[j].ep = "upload_status"

C2_Witness ==
    /\ Count("create_run", calls) = 1
    /\ Answer("create_run").ok
    /\ Answer("create").body.id = "sq2"

\* C3: poll_task_upload_status has returned exactly when a poll was answered
\* SUCCESS ignoring case; that poll is the last upload-status poll, one of
\* the first 12, and with k polls made the loop has slept 5*(k-1) time-units;
\* once it has returned no upload-status poll is issued.
C3_State ==
    LET k == Count("upload_status", calls)
    IN  /\ ("poll_task_upload_status" \in returned) <=>
              (Answered("upload_status") /\ SaidUploadSuccess(Answer("upload_status")))
        /\ ("poll_task_upload_status" \in returned) =>
              /\ k >= 1 /\ k <= 12
              /\ slept["upload_status"] = 5 * (k - 1)

C3_Step ==
    /\ ("poll_task_upload_status" \in returned) => ~Issues("upload_status")
    /\ Issues("upload_status") =>
          /\ Count("upload_status", calls) < 12
          /\ slept["upload_status"] = 5 * Count("upload_status", calls)

C3_PollUploadReturnsOnSuccess == []C3_State /\ [][C3_Step]_vars

C3_Witness ==
    /\ "poll_task_upload_status" \in returned
    /\ Count("upload_status", calls) = 3
    /\ slept["upload_status"] = 10
    /\ Answer("upload_status").body.state = <<"S","u","c","c","e","s","s">>

\* C4: a 2xx upload-status answer that is not SUCCESS (PENDING, FAILED, no
\* state at all) makes the loop sleep 5 and stay in the loop, a 2xx
\* run-details answer without export_done true does the same; after 12 such
\* upload polls (24 such export polls) elapsed is at the ceiling 60 (120) and
\* the process aborts with the timeout message without one more poll. A
\* timeout is reported only after exactly 12 (24) polls.
C4_State ==
    /\ pc = "poll_upload" =>
          /\ elapsed = 5 * Count("upload_status", calls)
          /\ Count("upload_status", calls) <= 12
    /\ pc = "poll_export" =>
          /\ elapsed = 5 * Count("run_details", calls)
          /\ Count("run_details", calls) <= 24
    /\ exit_msg = "upload_timeout" =>
          /\ Count("upload_status", calls) = 12
          /\ slept["upload_status"] = 60
          /\ Answer("upload_status").ok /\ ~SaidUploadSuccess(Answer("upload_status"))
          /\ exit_status # 0
    /\ exit_msg = "export_timeout" =>
          /\ Count("run_details", calls) = 24
          /\ slept["run_details"] = 120
          /\ Answer("run_details").ok /\ ~SaidExportDone(Answer("run_details"))
          /\ exit_status # 0

C4_Step ==
    /\ (Issues("upload_status") /\ Answer("upload_status")'.ok
            /\ ~SaidUploadSuccess(Answer("upload_status")')) =>
          /\ pc' = "poll_upload"
          /\ slept'["upload_status"] = slept["upload_status"] + 5
    /\ (Issues("run_details") /\ Answer("run_details")'.ok
            /\ ~SaidExportDone(Answer("run_details")')) =>
          /\ pc' = "poll_export"
          /\ slept'["run_details"] = slept["run_details"] + 5
    /\ (pc = "poll_upload" /\ Count("upload_status", calls) = 12) =>
          /\ calls' = calls
          /\ pc' = "exited"
          /\ exit_msg' = "upload_timeout" \/ Interrupted'
    /\ (pc = "poll_export" /\ Count("run_details", calls) = 24) =>
          /\ calls' = calls
          /\ pc' = "exited"
          /\ exit_msg' = "export_timeout" \/ Interrupted'

C4_BoundedLoopsTimeOut == []C4_State /\ [][C4_Step]_vars

C4_Witness ==
    /\ exit_msg = "upload_timeout"
    /\ Count("upload_status", calls) = 12
    /\ Answer("upload_status").body = [state |-> <<"F","A","I","L","E","D">>]

\* C5: poll_run_progress has returned exactly when the last run-stats answer
\* carried is_done true; an answer without is_done true, whatever its
\* percent_done and result counts, keeps the loop polling; once the loop has
\* returned no run-stats poll is issued.
C5_State ==
    ("poll_run_progress" \in returned) <=>
        (Answered("run_stats") /\ SaidRunDone(Answer("run_stats")))

C5_Step ==
    /\ ("poll_run_progress" \in returned) => ~Issues("run_stats")
    /\ (Issues("run_stats") /\ Answer("run_stats")'.ok
            /\ ~SaidRunDone(Answer("run_stats")')) =>
          /\ pc' = "poll_run"
          /\ slept'["run_stats"] = slept["run_stats"] + 2

C5_RunProgressEndsOnIsDone == []C5_State /\ [][C5_Step]_vars

C5_Witness ==
    /\ "poll_run_progress" \in returned
    /\ Count("run_stats", calls) = 2
    /\ Answer("run_stats").body.percent_done = "50%"

\* C6: poll_export_status has returned exactly when the last run-details
\* answer carried export_done true, that poll being one of the first 24;
\* once it has returned no run-details poll is issued; a download-URL
\* request is issued only after it.
C6_State ==
    /\ ("poll_export_status" \in returned) <=>
          (Answered("run_details") /\ SaidExportDone(Answer("run_details")))
    /\ ("poll_export_status" \in returned) =>
          /\ Count("run_details", calls) >= 1
          /\ Count("run_details", calls) <= 24
          /\ slept["run_details"] = 5 * (Count("run_details", calls) - 1)
    /\ Count("download_url", calls) > 0 =>
          (Answered("run_details") /\ SaidExportDone(Answer("run_details")))

C6_Step == ("poll_export_status" \in returned) => ~Issues("run_details")

C6_ExportPollEndsOnExportDone == []C6_State /\ [][C6_Step]_vars

C6_Witness ==
    /\ Count("download_url", calls) = 1
    /\ Count("run_details", calls) = 24
    /\ "poll_export_status" \in returned

\* C7: once any remote call has been answered non-2xx the process has exited
\* with a non-zero status and that call is the last one issued.
C7_Non2xxIsFatal ==
    \A ep \in Endpoints :
        (Answered(ep) /\ ~Answer(ep).ok) =>
            /\ pc = "exited"
            /\ exit_status # 0
            /\ calls[Len(calls)].ep = ep

C7_Witness ==
    /\ Answered("run_stats") /\ ~Answer("run_stats").ok
    /\ Count("run_stats", calls) = 2
    /\ pc = "exited"

\* The field each step reads from a 2xx body.
ExpectedField ==
    [create |-> "id", create_run |-> "id", upload |-> "task_id",
     download_url |-> "s3", upload_status |-> "state", run_stats |-> "is_done",
     run_details |-> "export_done"]

IdSteps == {"create", "create_run", "upload", "download_url"}

PollInterval == [upload_status |-> 5, run_stats |-> 2, run_details |-> 5]

LacksField(ep, resp) == resp.ok /\ ExpectedField[ep] \notin DOMAIN resp.body

\* C8 as claimed: once a step has been answered 2xx without the field it
\* expects (id, task_id, state, is_done, export_done, s3), the process has
\* exited with a non-zero status and that call is the last one issued.
C8_MissingFieldIsFatal ==
    \A ep \in DOMAIN ExpectedField :
        (Answered(ep) /\ LacksField(ep, Answer(ep))) =>
            /\ pc = "exited"
            /\ exit_status # 0
            /\ calls[Len(calls)].ep = ep

\* C8 as amended: a 2xx answer without id (create-job, create-run), task_id
\* (upload) or s3 (download URL) is fatal at once: the process has exited
\* with a non-zero status and that call is the last one issued. A 2xx poll
\* answer without state, is_done or export_done is not fatal: it counts as
\* not done yet, the loop sleeps its interval and stays in the loop.
C8_State ==
    \A ep \in IdSteps :
        (Answered(ep) /\ LacksField(ep, Answer(ep))) =>
            /\ pc = "exited"
            /\ exit_status # 0
            /\ calls[Len(calls)].ep = ep

C8_Step ==
    \A ep \in PollLoops :
        (Issues(ep) /\ LacksField(ep, Answer(ep)')) =>
            /\ pc' = pc
            /\ exit_status' = -1
            /\ returned' = returned
            /\ slept'[ep] = slept[ep] + PollInterval[ep]

C8_MissingIdIsFatalMissingFlagIsRepolled == []C8_State /\ [][C8_Step]_vars

C8_Witness ==
    /\ Answered("upload_status") /\ LacksField("upload_status", Answer("upload_status"))
    /\ Count("upload_status", calls) = 2
    /\ pc = "poll_upload"

\* An extension other than .csv and .tsv, compared ignoring case.
InvalidExtension(path) ==
    /\ ~SameIgnoringCase(SplitExt(path), CSV_EXT)
    /\ ~SameIgnoringCase(SplitExt(path), TSV_EXT)

\* C9 as claimed: when the tasks file's extension is neither .csv nor .tsv
\* (ignoring case) and the process has failed on it, no create-job,
\* update-job or upload call has been issued.
C9_InvalidExtensionBeforeAnyCall ==
    (~NoTasksFile /\ InvalidExtension(args.tasks_file.path)
        /\ exit_msg = "invalid_extension") =>
        /\ Count("create", calls) = 0
        /\ Count("update", calls) = 0
        /\ Count("upload", calls) = 0

\* C10: with LOBSTR_API_KEY unset or empty no remote call is ever issued, the
\* process never gets past the constructor, and the step it takes from there
\* ends it with a non-zero status.
C10_State ==
    env_key \in {None, ""} =>
        /\ calls = <<>>
        /\ pc \in {"construct", "exited"}
        /\ pc = "exited" => exit_status # 0

C10_Step ==
    (pc = "construct" /\ env_key \in {None, ""}) =>
        /\ pc' = "exited"
        /\ exit_status' # 0
        /\ calls' = <<>>

C10_MissingCredentialFailsAtConstruction == []C10_State /\ [][C10_Step]_vars

C10_Witness ==
    /\ env_key = ""
    /\ pc = "exited"
    /\ exit_status = 1
    /\ exit_msg = "LOBSTR_API_KEY environment variable not set!"

\* The two endings the specification calls successful.
FullDownload ==
    /\ Answered("download") /\ Answer("download").ok
    /\ "download_csv" \in returned

EarlyExitDone ==
    /\ NoTasksFile
    /\ Answered("delete") /\ Answer("delete").ok
    /\ pc = "exited"

\* C11 as claimed: the process has exited with status 0 exactly when it
\* ended after a full download (run_results.csv written) or on the early-exit
\* path (no tasks file, job deleted); every other ending has a non-zero
\* status.
C11_ZeroStatusOnDownloadOrEarlyExit ==
    pc = "exited" => (exit_status = 0 <=> (FullDownload \/ EarlyExitDone))

\* C12 as claimed: after a successful delete on the early-exit path the
\* process exits with a status other than 1, the status sys.exit(message)
\* gives every fatal failure (a failed delete-job call, a timeout).
C12_EarlyExitStatusDistinctFromCrash ==
    EarlyExitDone => exit_status # 1

\* C13: with a tasks file no delete-job call is ever issued, whatever the
\* ending (timeouts and fatal remote errors included): the job created stays
\* on the remote service. A delete-job call is issued only without a tasks
\* file, as the third call after create and update.
C13_DeleteOnlyOnEarlyExit ==
    /\ ~NoTasksFile => Count("delete", calls) = 0
    /\ Count("delete", calls) > 0 =>
          /\ NoTasksFile
          /\ Eps(calls) = <<"create", "update", "delete">>

C13_Witness ==
    /\ ~NoTasksFile
    /\ exit_msg = "export_timeout"
    /\ Count("create", calls) = 1 /\ Count("create_run", calls) = 1
    /\ Count("delete", calls) = 0

\* The steps the process can still take, a run-stats poll that is answered
\* "not done" not counted: single calls, at most 12 upload-status polls and
\* at most 24 run-details polls.
StepsLeft ==
    CASE pc = "construct" -> 46
      [] pc = "create_squid" -> 45
      [] pc = "update_squid" -> 44
      [] pc = "branch" -> 43
      [] pc = "poll_upload" -> 30 + (12 - Count("upload_status", calls))
      [] pc = "start_run" -> 29
      [] pc = "poll_run" -> 28
      [] pc = "poll_export" -> 3 + (24 - Count("run_details", calls))
      [] pc = "get_s3_url" -> 2
      [] pc = "download_csv" -> 1
      [] pc = "exited" -> 0

\* The model's bound on the run-progress loop is used up, every answer so
\* far having been "not done".
RunPollsExhausted ==
    /\ pc = "poll_run"
    /\ Count("run_stats", calls) = MaxRunPolls

\* The run-progress loop was told to end: is_done true, or a non-2xx.
RunStatsEnded ==
    /\ Answered("run_stats")
    /\ SaidRunDone(Answer("run_stats")) \/ ~Answer("run_stats").ok

C14_State ==
    /\ pc = "poll_upload" => Count("upload_status", calls) <= 12
    /\ pc = "poll_export" => Count("run_details", calls) <= 24
    /\ StepsLeft >= 0

C14_Step ==
    \/ StepsLeft' < StepsLeft
    \/ /\ Issues("run_stats")
       /\ Answer("run_stats")'.ok /\ ~SaidRunDone(Answer("run_stats")')
       /\ pc = "poll_run" /\ pc' = "poll_run"

\* C14: every step but a run-stats poll answered 2xx without is_done true
\* brings the process closer to its exit (single calls, at most 12
\* upload-status and 24 run-details polls), and such a poll leaves it in the
\* run-progress loop; a running process therefore exits unless the
\* run-progress loop is answered "not done" for ever (here: up to the
\* model's bound), and it exits once a run-stats poll is answered is_done
\* true or non-2xx.
C14_OnlyRunProgressLoopIsUnbounded ==
    /\ []C14_State
    /\ [][C14_Step]_vars
    /\ <>(pc = "exited" \/ RunPollsExhausted)
    /\ (RunStatsEnded ~> pc = "exited")

C14_Witness ==
    /\ RunPollsExhausted
    /\ Answer("run_stats").ok /\ ~SaidRunDone(Answer("run_stats"))
    /\ slept["run_stats"] = 2 * MaxRunPolls

\* The constructor has run: the lifecycle of main() has begun.
LifecycleBegun == self.api_key # None

\* C15 as claimed: a signal that arrives once the lifecycle has begun is
\* caught at the top level: the process prints the operation-cancelled
\* message and exits with a non-zero status, not with an uncaught
\* KeyboardInterrupt.
C15_InterruptCaughtAtTopLevel ==
    (LifecycleBegun /\ Interrupted) =>
        /\ exit_msg = "operation_cancelled"
        /\ exit_status # 0

\* The call that may come right before a call to each endpoint.
Before ==
    [create |-> {},
     update |-> {"create"},
     upload |-> {"update"},
     delete |-> {"update"},
     upload_status |-> {"upload", "upload_status"},
     create_run |-> {"upload_status"},
     run_stats |-> {"create_run", "run_stats"},
     run_details |-> {"run_stats", "run_details"},
     download_url |-> {"run_details"},
     download |-> {"download_url"}]

\* The answer that lets the step go on to the next one.
Succeeded(ep) ==
    /\ Answered(ep)
    /\ Answer(ep).ok
    /\ ep \in IdSteps =>
          /\ ExpectedField[ep] \in DOMAIN Answer(ep).body
          /\ Answer(ep).body[ExpectedField[ep]] \notin {None, ""}
    /\ ep = "upload_status" => SaidUploadSuccess(Answer(ep))
    /\ ep = "run_stats" => SaidRunDone(Answer(ep))
    /\ ep = "run_details" => SaidExportDone(Answer(ep))

C16_State ==
    /\ \A i \in DOMAIN calls :
          /\ i = 1 => calls[i].ep = "create"
          /\ i > 1 => calls[i - 1].ep \in Before[calls[i].ep]
          /\ (i < Len(calls) /\ calls[i + 1].ep # calls[i].ep) => Succeeded(calls[i].ep)
    /\ \A ep \in Endpoints \ PollLoops : Count(ep, calls) <= 1

C16_Step ==
    /\ StepsLeft' <= StepsLeft
    /\ \A ep \in Endpoints : Issues(ep) => (calls # <<>> => Succeeded(calls[Len(calls)].ep)
                                                        \/ calls[Len(calls)].ep = ep)

\* C16: the calls come in the order create, update, then upload and its
\* polls or delete, then create-run, run-stats polls, run-details polls,
\* download-URL, download; every call but a poll is issued at most once; a
\* call to the next endpoint is issued only after the one before succeeded;
\* main never moves back to an earlier step.
C16_LinearLifecycle == []C16_State /\ [][C16_Step]_vars

C16_Witness ==
    /\ Count("upload_status", calls) = 2
    /\ Count("run_stats", calls) = 2
    /\ Count("run_details", calls) = 2
    /\ Count("download", calls) = 1
    /\ exit_status = 0

\* C17: every payload update_squid sends carries the caller's concurrency,
\* the caller's max_pages under params, the caller's annonce_details under
\* params.fill_results_details, and the fixed export_unique_results = true,
\* no_line_breaks = true, to_complete = false, run_notify = "on_success";
\* one payload goes out per update call.
C17_UpdatePayloadReflectsArguments ==
    /\ Len(payload) = Count("update", calls)
    /\ \A i \in DOMAIN payload :
          /\ payload[i].concurrency = args.concurrency
          /\ payload[i].params.max_pages = args.max_pages
          /\ payload[i].params.fill_results_details.annonce_details = args.annonce_details
          /\ payload[i].export_unique_results = TRUE
          /\ payload[i].no_line_breaks = TRUE
          /\ payload[i].to_complete = FALSE
          /\ payload[i].run_notify = "on_success"

C17_Witness ==
    /\ Len(payload) = 1
    /\ args.concurrency = 3 /\ args.max_pages = 5 /\ args.annonce_details
    /\ payload[1].concurrency = 3
    /\ payload[1].params.max_pages = 5
    /\ payload[1].params.fill_results_details.annonce_details = TRUE

\* C18 as claimed: no update-job payload is ever sent with concurrency below
\* 1 or max_pages below 1.
C18_PayloadIntegersArePositive ==
    \A i \in DOMAIN payload :
        /\ payload[i].concurrency >= 1
        /\ payload[i].params.max_pages >= 1

C19_Step ==
    ~Interrupted' => /\ LifecycleOf("sel")
                     /\ LifecycleOf("seldeep")

\* C19: with no interrupt, every step one script takes (the call it issues,
\* its reading of the response, the step or the exit it goes to, what it
\* writes) is a step the other script takes from the same state on the same
\* response: both issue the same calls in the same order with the same poll
\* counts and end in the same outcome at the same step.
C19_ScriptsEquivalent == [][C19_Step]_vars

C19_Witness ==
    /\ impl = "seldeep"
    /\ ~Interrupted
    /\ Count("upload_status", calls) = 2
    /\ Count("run_details", calls) = 2
    /\ exit_msg = "download_failed"

\* run_results.csv as it was when the process started.
InitialFile == (CHOOSE s \in Settings : s.concurrency = args.concurrency).out_file

\* All that the claim requires before the file is written.
ReadyToWrite ==
    /\ Answered("upload_status") /\ SaidUploadSuccess(Answer("upload_status"))
    /\ Answered("run_stats") /\ SaidRunDone(Answer("run_stats"))
    /\ Answered("run_details") /\ SaidExportDone(Answer("run_details"))
    /\ Answered("download_url") /\ Answer("download_url").ok
    /\ "s3" \in DOMAIN Answer("download_url").body
    /\ Answer("download_url").body.s3 \notin {None, ""}
    /\ Answered("download") /\ Answer("download").ok

\* C20 as claimed: the file is written at most once and only after SUCCESS,
\* is_done, export_done, a non-empty URL and a 2xx download; on every failing
\* or early-exit path the file is left unchanged.
C20_FileUnchangedOnEveryFailingPath ==
    /\ writes <= 1
    /\ writes = 1 => ReadyToWrite
    /\ (pc = "exited" /\ exit_status # 0) => out_file = InitialFile

\* C20, amended: the file is opened for writing at most once and only after
\* SUCCESS, is_done, export_done, a non-empty URL and a 2xx download; on every
\* path on which it was not opened (every abort before the download, the
\* early exit, a non-2xx download, an interrupt) it is left unchanged; after
\* a successful run it holds the fetched bytes; a write that fails after the
\* open leaves a partial file and a non-zero status.
C20_FileOpenedOnlyWhenReady ==
    /\ writes <= 1
    /\ writes = 1 => ReadyToWrite
    /\ writes = 0 => out_file = InitialFile
    /\ (pc = "exited" /\ exit_status = 0) =>
          /\ writes = 1
          /\ out_file = Answer("download").body.content
    /\ (writes = 1 /\ exit_status # 0) =>
          /\ out_file = "partial"
          /\ exit_msg = "uncaught_OSError"

C20_Witness ==
    /\ writes = 1
    /\ InitialFile = "old"
    /\ out_file = "bytes"
    /\ exit_status = 0

\* The calls that embed the Job identifier, and those that embed the Run
\* identifier.
JobCalls == {"update", "upload", "delete", "create_run"}

RunCalls == {"run_stats", "run_details", "download_url"}

\* The identifier the single successful call to ep returned is id.
ReturnedBy(ep, id) ==
    /\ Count(ep, calls) = 1
    /\ Answered(ep) /\ Answer(ep).ok
    /\ "id" \in DOMAIN Answer(ep).body
    /\ Answer(ep).body.id = id
    /\ id \notin {None, ""}

C21_State ==
    \A i \in DOMAIN calls :
        /\ calls[i].ep \in JobCalls =>
              /\ calls[i].id = self.squid_id
              /\ ReturnedBy("create", calls[i].id)
        /\ calls[i].ep \in RunCalls =>
              /\ calls[i].id = self.run_id
              /\ ReturnedBy("create_run", calls[i].id)

C21_Step ==
    /\ self.squid_id \notin {None, ""} => self'.squid_id = self.squid_id
    /\ self.run_id \notin {None, ""} => self'.run_id = self.run_id
    /\ \A ep \in JobCalls : Issues(ep) => self.squid_id \notin {None, ""}
    /\ \A ep \in RunCalls : Issues(ep) => self.run_id \notin {None, ""}

\* C21: every update, upload, delete and create-run call embeds squid_id, a
\* non-empty identifier returned by the single successful create call; every
\* run-stats, run-details and download-URL call embeds run_id, a non-empty
\* identifier returned by the single successful create-run call; neither
\* identifier changes once set.
C21_IdentifiersFixedAndReturned == []C21_State /\ [][C21_Step]_vars

C21_Witness ==
    /\ self.squid_id = "sq2"
    /\ self.run_id = "run1"
    /\ Count("create_run", calls) = 1
    /\ Count("run_stats", calls) = 2
    /\ Count("download_url", calls) = 1
====
